---- MODULE Spec2Model ----
(***************************************************************************)
(* Model of the backend's core logic:                                      *)
(*   - app/services/rate_limiter.py  check_rate_limit (per-user hourly     *)
(*     prompt counter with reset timestamp), run one request at a time     *)
(*     (SpecRateLimit) and as concurrent requests (SpecRateLimitConc);     *)
(*   - app/api/auth.py  get_clerk_jwks / get_signing_key /                 *)
(*     verify_clerk_token (cached JWKS fetch, then token verification),    *)
(*     one request at a time (SpecAuth).                                   *)
(* Time is a discrete clock; one hour is Hour ticks.                       *)
(***************************************************************************)
EXTENDS Integers, Sequences, FiniteSets, TLC

\* ------------------------------------------------------------------ bounds
\* ticks of the clock per hour (granularity of the modelled clock)
TicksPerHour == 2
\* the clock stops advancing at MaxTime
MaxTime == 6
\* the clock stops advancing at MaxTimeConc while requests run concurrently
MaxTimeConc == 2
\* settings.MAX_PROMPTS_PER_HOUR (config.py:18, default 20, overridable from
\* the environment); the limiter is parametric in it
MAX_PROMPTS_PER_HOUR == 2
\* number of concurrently running check_rate_limit requests
NumReq == 2
\* the clock stops advancing at MaxTimeAuth while tokens are verified
MaxTimeAuth == 2
\* a fetched key set holds at most MaxKeys keys
MaxKeys == 1
\* a presented token differs from ValidToken in at most MaxTokenDefects fields
MaxTokenDefects == 1
\* number of concurrently running get_clerk_jwks calls
NumJwksCalls == 2
\* number of concurrently running get_or_create_user calls
NumUserCalls == 2
\* the limit create_project passes to check_max_projects (10 in projects.py:86)
max_projects == 2
\* number of concurrently running create_project / delete_project requests
NumProjectCalls == 2
\* rows ever inserted into projects and into files
MaxProjectsEver == 3
MaxFilesEver == 4

\* timedelta(hours=1)
Hour == TicksPerHour
Time == 0..MaxTime
\* a NULL last_prompt_reset (the column is nullable, models/user.py:17)
None == 0 - 1

\* ------------------------------------------------------------- user rows
UserIds == {"u1", "u2"}
\* the user that has a row in the users table; "u2" has none
KnownUser == "u1"

Row(count, reset) ==
    [hourly_prompt_count |-> count, last_prompt_reset |-> reset]

Result(can_proceed, remaining) ==
    [allowed |-> can_proceed, remaining |-> remaining]

VARIABLES
    clock,      \* datetime.utcnow(), in ticks
    users,      \* the users table: user id -> row (rows that exist)
    lastCall,   \* history: the last completed sequential check_rate_limit call
    streak,     \* history: calls made since the counter was last zero (saturating)
    grantLog,   \* history: time -> number of calls that returned allowed = true
    req,        \* per concurrent request: its position and its session's User object
    windowGrants, \* history: concurrent calls allowed since the anchor last moved (saturating)
    jwks_cache,      \* auth.py _jwks_cache: the last fetched response body
    jwks_cache_time, \* auth.py _jwks_cache_time: when it was fetched
    verify,          \* the request at verify_clerk_token: its header and, once handled, its outcome
    jwksCall,        \* per concurrent get_clerk_jwks call: its position and what it returned
    lastWrite,       \* history: the body and the time the last completed fetch stored
    userTable,       \* users table, identity columns: id, clerk_user_id, email, username
    lastGoc,         \* history: the last get_or_create_user call handled on its own
    firstCall,       \* history, per subject: id and email of the first call that returned a record
    gocCall,         \* per concurrent get_or_create_user call: its position and outcome
    projects,        \* projects table: project id -> user_id of the owner
    chatMessages,    \* per project: number of chat messages persisted
    completions,     \* number of AI completions started
    lastChat,        \* history: the last stream_chat request
    chatSeen,        \* history: the statuses stream_chat has answered with
    lastView,        \* history: the last get_rate_limit response
    files,           \* files table: rows id, project_id, name, content
    nextProject,     \* number of the next project row (ids are never reused)
    nextFile,        \* number of the next file row
    projCall,        \* per concurrent project request: its position and outcome
    lastReq          \* history: the last project or file request handled on its own

limiterVars == <<users, lastCall, streak, grantLog, req, windowGrants>>
jwksConcVars == <<jwksCall, lastWrite>>
authVars == <<jwks_cache, jwks_cache_time, verify, jwksConcVars>>
userVars == <<userTable, lastGoc, firstCall, gocCall>>
chatVars == <<projects, chatMessages, completions, lastChat, chatSeen>>
viewVars == <<lastView>>
storeVars == <<files, nextProject, nextFile, projCall, lastReq>>
vars == <<clock, limiterVars, authVars, userVars, chatVars, viewVars, storeVars>>

\* ------------------------------------------------- check_rate_limit steps
\* rate_limiter.py:24-34, on the session's User object: "Reset if hour has passed"
ResetStep_Ge(user, now) ==
    IF user.last_prompt_reset # None
    THEN IF now - user.last_prompt_reset >= Hour
         THEN Row(0, now)
         ELSE user
    ELSE Row(user.hourly_prompt_count, now)

ResetStep_NoZero(user, now) ==
    IF user.last_prompt_reset # None
    THEN IF now - user.last_prompt_reset > Hour
         THEN Row(user.hourly_prompt_count, now)
         ELSE user
    ELSE Row(user.hourly_prompt_count, now)

ResetStep(user, now) ==
    IF user.last_prompt_reset # None
    THEN IF now - user.last_prompt_reset > Hour
         THEN Row(0, now)
         ELSE user
    ELSE Row(user.hourly_prompt_count, now)

\* rate_limiter.py:36-47: the limit check and the increment; the object after
\* the step and the returned tuple
CheckStep_OffByOne(user) ==
    IF user.hourly_prompt_count > MAX_PROMPTS_PER_HOUR
    THEN [user |-> user, ret |-> Result(FALSE, 0)]
    ELSE [user |-> Row(user.hourly_prompt_count + 1, user.last_prompt_reset),
          ret  |-> Result(TRUE, MAX_PROMPTS_PER_HOUR - (user.hourly_prompt_count + 1))]

CheckStep_Strict(user) ==
    IF user.hourly_prompt_count + 1 >= MAX_PROMPTS_PER_HOUR
    THEN [user |-> user, ret |-> Result(FALSE, 0)]
    ELSE [user |-> Row(user.hourly_prompt_count + 1, user.last_prompt_reset),
          ret  |-> Result(TRUE, MAX_PROMPTS_PER_HOUR - (user.hourly_prompt_count + 1))]

CheckStep_IncOnDeny(user) ==
    IF user.hourly_prompt_count >= MAX_PROMPTS_PER_HOUR
    THEN [user |-> Row(user.hourly_prompt_count + 1, user.last_prompt_reset),
          ret  |-> Result(FALSE, 0)]
    ELSE [user |-> Row(user.hourly_prompt_count + 1, user.last_prompt_reset),
          ret  |-> Result(TRUE, MAX_PROMPTS_PER_HOUR - (user.hourly_prompt_count + 1))]

CheckStep(user) ==
    IF user.hourly_prompt_count >= MAX_PROMPTS_PER_HOUR
    THEN [user |-> user, ret |-> Result(FALSE, 0)]
    ELSE [user |-> Row(user.hourly_prompt_count + 1, user.last_prompt_reset),
          ret  |-> Result(TRUE, MAX_PROMPTS_PER_HOUR - (user.hourly_prompt_count + 1))]

\* await db.commit(): the session's unit of work writes the attributes whose
\* value differs from the one the session last loaded or committed
\* (expire_on_commit=False, database.py:23: the object is not re-read)
Commit_CountOnly(row, old, new) ==
    Row(IF new.hourly_prompt_count # old.hourly_prompt_count
            THEN new.hourly_prompt_count ELSE row.hourly_prompt_count,
        row.last_prompt_reset)

Commit(row, old, new) ==
    Row(IF new.hourly_prompt_count # old.hourly_prompt_count
            THEN new.hourly_prompt_count ELSE row.hourly_prompt_count,
        IF new.last_prompt_reset # old.last_prompt_reset
            THEN new.last_prompt_reset ELSE row.last_prompt_reset)

\* ------------------------------------------------------------- histories
NoCall ==
    [called |-> FALSE, user_id |-> KnownUser, found |-> FALSE,
     before |-> Row(0, None), now |-> 0, mid |-> Row(0, None),
     persisted |-> Row(0, None), after |-> Row(0, None), ret |-> Result(FALSE, 0)]

StreakCap == MAX_PROMPTS_PER_HOUR + 2

\* calls since the counter was zero: a call whose reset zeroes the counter is
\* the first of a new run
NextStreak(s, before, mid) ==
    IF mid.hourly_prompt_count = 0 /\ mid.last_prompt_reset # before.last_prompt_reset
       /\ before.last_prompt_reset # None
    THEN 1
    ELSE IF s < StreakCap THEN s + 1 ELSE s

Grant(log, t, ret) ==
    IF ret.allowed THEN [log EXCEPT ![t] = @ + 1] ELSE log

\* ------------------------------------------------------- auth.py: data
Absent == "<absent>"
\* settings.CLERK_ISSUER_URL
Issuer == "https://issuer"

\* a key of the key set: its kid and its RSA public key; "bad" is a key whose
\* n or e is missing or does not decode (auth.py:57-58 raises)
Jwk == {[kid |-> "k1", rsa |-> "m1"], [kid |-> "k2", rsa |-> "m2"],
        [kid |-> "k1", rsa |-> "bad"]}

KeyLists == UNION {[1..n -> Jwk] : n \in 0..MaxKeys}

\* what response.json() can be: a JSON object (a key set when it has "keys"),
\* the empty object {} (falsy in Python), or another JSON value, truthy or falsy
Json(kind, truthy, keys) == [kind |-> kind, truthy |-> truthy, keys |-> keys]
Bodies ==
    {Json("object", TRUE, ks) : ks \in KeyLists}
        \cup {Json("object", FALSE, <<>>), Json("other", TRUE, <<>>),
              Json("other", FALSE, <<>>)}
\* _jwks_cache = None
NoCache == Json("none", FALSE, <<>>)

\* what the GET of the JWKS url does: httpx.HTTPError (connection error,
\* timeout, raise_for_status), a body that is not JSON, or a JSON body
Outcomes ==
    {[kind |-> "http_error", body |-> NoCache], [kind |-> "bad_json", body |-> NoCache]}
        \cup {[kind |-> "body", body |-> b] : b \in Bodies}

\* a token: whether its header decodes, the header's kid and alg, the key that
\* signed it, and the payload's exp (against now), iss, sub and aud
ValidToken ==
    [wellformed |-> TRUE, kid |-> "k1", alg |-> "RS256", signer |-> "m1",
     expired |-> FALSE, iss |-> Issuer, sub |-> "user_a", aud |-> Absent]
AllTokens ==
    [wellformed : BOOLEAN, kid : {Absent, "k1", "k2"}, alg : {"RS256", "HS256"},
     signer : {"m1", "m2"}, expired : BOOLEAN, iss : {Issuer, "https://other"},
     sub : {Absent, "", "user_a"}, aud : {Absent, "api"}]
TokenFields == {"wellformed", "kid", "alg", "signer", "expired", "iss", "sub", "aud"}
Defects(t) == Cardinality({f \in TokenFields : t[f] # ValidToken[f]})
Tokens == {t \in AllTokens : Defects(t) <= MaxTokenDefects}

\* the Authorization header: absent (or empty), not starting with "Bearer ",
\* "Bearer " followed by nothing but blanks, or "Bearer <token>"
Headers ==
    {[kind |-> k, token |-> ValidToken] : k \in {"absent", "other_scheme", "bearer_empty"}}
        \cup {[kind |-> "bearer", token |-> t] : t \in Tokens}

IdleVerify ==
    [pc |-> "idle", header |-> [kind |-> "absent", token |-> ValidToken],
     status |-> 0, sub |-> Absent, reached |-> FALSE, fetched |-> FALSE,
     outcome |-> "none", raised |-> "none", hadKeySet |-> FALSE, age |-> None,
     fromCache |-> FALSE, stamped |-> FALSE, cacheKept |-> TRUE]

\* -------------------------------------------------- user_service, data
\* the subject ids Clerk issues; KnownSubject is the subject of KnownUser
Subjects == {"user_a", "user_b"}
KnownSubject == "user_a"
\* chat.py:30, projects.py:30: the email the routers pass
Placeholder(clerk_user_id) == clerk_user_id \o "@placeholder.com"
\* email arguments: None, the empty string, the placeholder, another address
EmailsFor(clerk_user_id) == {Absent, "", Placeholder(clerk_user_id), "mail@example.com"}
Usernames == {Absent, "ann"}
\* Python truthiness of an optional string
Truthy(str) == str \notin {Absent, ""}
\* the values uuid.uuid4() can give
Uuids == UserIds \cup {"u3"}
\* identity columns of a users row
Profile(id, clerk_user_id, email, username) ==
    [id |-> id, clerk_user_id |-> clerk_user_id, email |-> email, username |-> username]
\* scalar_one_or_none() found no row
NoUser == Profile(Absent, Absent, Absent, Absent)
NoGoc ==
    [called |-> FALSE, clerk_user_id |-> KnownSubject, email |-> Absent,
     username |-> Absent, before |-> {}, raised |-> "none", ret |-> NoUser]
NoFirstCall == [id |-> Absent, email |-> Absent]
UserCalls == 1..NumUserCalls
IdleUserCall ==
    [pc |-> "idle", clerk_user_id |-> KnownSubject, email |-> Absent,
     username |-> Absent, user |-> NoUser, raised |-> "none", ret |-> Absent,
     conflict |-> FALSE]

\* ---------------------------------------------------------- chat, data
\* the project of KnownUser, and the project ids a request can name
KnownProject == "p1"
ProjectIds == {KnownProject, "p2"}
NoChat ==
    [called |-> FALSE, clerk_user_id |-> KnownSubject, project_id |-> KnownProject,
     status |-> 0, now |-> 0, hadRow |-> FALSE, before |-> Row(0, None),
     after |-> Row(0, None), saved |-> FALSE, streamed |-> FALSE]

\* ------------------------------------------------- get_rate_limit, data
NoView ==
    [called |-> FALSE, clerk_user_id |-> KnownSubject, found |-> FALSE, now |-> 0,
     row |-> Row(0, None), remaining_prompts |-> 0, reset_time |-> 0,
     wouldAllow |-> FALSE]

\* ------------------------------------------------ projects and files, data
\* uuid4 values of project and file rows, told apart by the order of creation
ProjectId(n) == "p" \o ToString(n)
FileId(n) == "f" \o ToString(n)
\* project_service.py:8-88: the file names of each template
TEMPLATE_FILES ==
    [template_type \in {"portfolio_website", "todo_app", "calculator"} |->
        IF template_type = "portfolio_website"
        THEN <<"index.html", "style.css">>
        ELSE <<"index.html", "style.css", "script.js">>]
\* template_type values a request can carry
TemplateTypes == {"portfolio_website", "todo_app", "blog"}
\* files.py:16
VALID_FILE_TYPES == {"html", "css", "js", "txt"}
File(id, project_id, name, content) ==
    [id |-> id, project_id |-> project_id, name |-> name, content |-> content]
\* project_service.py:99-110: the rows create_initial_files adds
InitialFiles(project_id, template_type, first) ==
    {File(FileId(first + i - 1), project_id, TEMPLATE_FILES[template_type][i], "template") :
        i \in 1..Len(TEMPLATE_FILES[template_type])}
ProjectCalls == 1..NumProjectCalls
IdleProjectCall ==
    [pc |-> "idle", op |-> "none", template_type |-> "portfolio_website",
     project_id |-> Absent, can_create |-> FALSE, status |-> 0]
\* foreign: the target exists and its project's user_id is not the id of the
\* requester's users row; taken: another file of the project has the name
NoReq ==
    [called |-> FALSE, op |-> "none", status |-> 0, changed |-> FALSE,
     disclosed |-> FALSE, foreign |-> FALSE, taken |-> FALSE, sameName |-> FALSE]
\* names and contents a file request can carry; "exe" is not a valid file type
FileNames == {"index.html", "style.css", "script.js"}
FileTypes == {"html", "exe"}
Contents == {Absent, "edit"}

JwksCalls == 1..NumJwksCalls
IdleJwksCall ==
    [pc |-> "idle", served |-> FALSE, age |-> None, raised |-> "none",
     overwrote |-> FALSE]

\* ---------------------------------------------------------------- state
IdleReq == [pc |-> "idle", user_id |-> KnownUser, loaded |-> Row(0, None),
            user |-> Row(0, None), reset |-> FALSE, ret |-> Result(FALSE, 0)]

Req == 1..NumReq

Init ==
    /\ clock = 0
    \* a new row: hourly_prompt_count default 0; last_prompt_reset is
    \* server_default now() or NULL (nullable column)
    /\ users \in [{KnownUser} -> {Row(0, 0), Row(0, None)}]
    /\ lastCall = NoCall
    /\ streak = 0
    /\ grantLog = [t \in Time |-> 0]
    /\ req = [r \in Req |-> IdleReq]
    /\ windowGrants = 0
    /\ jwks_cache = NoCache
    /\ jwks_cache_time = None
    /\ verify = IdleVerify
    /\ jwksCall = [c \in JwksCalls |-> IdleJwksCall]
    /\ lastWrite = [body |-> NoCache, time |-> None]
    \* the identity columns of the row of KnownUser, as the routers create it
    /\ userTable = {Profile(KnownUser, KnownSubject, Placeholder(KnownSubject), Absent)}
    /\ lastGoc = NoGoc
    /\ firstCall = [s \in Subjects |-> NoFirstCall]
    /\ gocCall = [c \in UserCalls |-> IdleUserCall]
    /\ projects = [project_id \in {KnownProject} |-> KnownUser]
    /\ chatMessages = [project_id \in {KnownProject} |-> 0]
    /\ completions = 0
    /\ lastChat = NoChat
    /\ chatSeen = {}
    /\ lastView = NoView
    \* KnownProject was created from the portfolio_website template
    /\ files = InitialFiles(KnownProject, "portfolio_website", 1)
    /\ nextProject = 2
    /\ nextFile = 1 + Len(TEMPLATE_FILES["portfolio_website"])
    /\ projCall = [c \in ProjectCalls |-> IdleProjectCall]
    /\ lastReq = NoReq

\* the clock advances
Tick ==
    /\ clock < MaxTime
    /\ clock' = clock + 1
    /\ UNCHANGED <<limiterVars, authVars, userVars, chatVars, viewVars, storeVars>>

\* check_rate_limit(db, user_id) handled alone, from its query to its return
CheckRateLimit(user_id) ==
    /\ \A r \in Req : req[r].pc = "idle"
    /\ IF user_id \notin DOMAIN users
       THEN \* rate_limiter.py:20-22
            /\ lastCall' = [NoCall EXCEPT !.called = TRUE, !.user_id = user_id,
                                          !.now = clock]
            /\ UNCHANGED <<users, streak, grantLog>>
       ELSE LET before == users[user_id]
                mid    == ResetStep(before, clock)
                row1   == Commit(before, before, mid)
                chk    == CheckStep(mid)
                row2   == Commit(row1, mid, chk.user)
            IN  /\ users' = [users EXCEPT ![user_id] = row2]
                /\ lastCall' = [called |-> TRUE, user_id |-> user_id,
                                found |-> TRUE, before |-> before, now |-> clock,
                                mid |-> mid, persisted |-> row1, after |-> row2,
                                ret |-> chk.ret]
                /\ streak' = NextStreak(streak, before, mid)
                /\ grantLog' = Grant(grantLog, clock, chk.ret)
    /\ UNCHANGED <<clock, req, windowGrants, authVars, userVars, chatVars, viewVars, storeVars>>

NextRateLimit ==
    \/ Tick
    \/ \E user_id \in UserIds : CheckRateLimit(user_id)

SpecRateLimit == Init /\ [][NextRateLimit]_vars

\* ------------------------------------- check_rate_limit, concurrent requests
\* Each request has its own session (database.py:30-35); requests interleave
\* at the awaits: the query (line 17) and the commits (lines 31, 34, 44).

\* rate_limiter.py:16-22: the query loads the row into the request's session
Load(r, user_id) ==
    /\ req[r].pc = "idle"
    /\ IF user_id \notin DOMAIN users
       THEN req' = [req EXCEPT ![r] = [IdleReq EXCEPT !.pc = "done",
                                                      !.user_id = user_id]]
       ELSE req' = [req EXCEPT ![r] = [IdleReq EXCEPT !.pc = "reset",
                                                      !.user_id = user_id,
                                                      !.loaded = users[user_id],
                                                      !.user = users[user_id]]]
    /\ UNCHANGED <<clock, users, lastCall, streak, grantLog, windowGrants, authVars, userVars, chatVars, viewVars, storeVars>>

\* rate_limiter.py:24-34: now is read, the reset is applied to the session's
\* object and committed
Reset(r) ==
    /\ req[r].pc = "reset"
    /\ LET old == req[r].user
           new == ResetStep(old, clock)
           row == Commit(users[req[r].user_id], old, new)
       IN  /\ users' = [users EXCEPT ![req[r].user_id] = row]
           /\ req' = [req EXCEPT ![r].pc = "check", ![r].user = new,
                                 ![r].reset = (new # old)]
           /\ windowGrants' = IF row.last_prompt_reset
                                     # users[req[r].user_id].last_prompt_reset
                               THEN 0 ELSE windowGrants
    /\ UNCHANGED <<clock, lastCall, streak, grantLog, authVars, userVars, chatVars, viewVars, storeVars>>

\* rate_limiter.py:36-47: the limit check, the increment and its commit, the return
Check(r) ==
    /\ req[r].pc = "check"
    /\ LET old == req[r].user
           chk == CheckStep(old)
       IN  /\ users' = [users EXCEPT ![req[r].user_id] = Commit(@, old, chk.user)]
           /\ req' = [req EXCEPT ![r].pc = "done", ![r].user = chk.user,
                                 ![r].ret = chk.ret]
           /\ windowGrants' = IF chk.ret.allowed /\ windowGrants < StreakCap
                               THEN windowGrants + 1 ELSE windowGrants
    /\ UNCHANGED <<clock, lastCall, streak, grantLog, authVars, userVars, chatVars, viewVars, storeVars>>

\* the caller has taken the result; the request slot is free again
Return(r) ==
    /\ req[r].pc = "done"
    /\ req' = [req EXCEPT ![r] = IdleReq]
    /\ UNCHANGED <<clock, users, lastCall, streak, grantLog, windowGrants, authVars, userVars, chatVars, viewVars, storeVars>>

\* the clock advances while requests are in flight
TickConc ==
    /\ clock < MaxTimeConc
    /\ clock' = clock + 1
    /\ UNCHANGED <<limiterVars, authVars, userVars, chatVars, viewVars, storeVars>>

NextRateLimitConc ==
    \/ TickConc
    \/ \E r \in Req, user_id \in UserIds : Load(r, user_id)
    \/ \E r \in Req : Reset(r)
    \/ \E r \in Req : Check(r)
    \/ \E r \in Req : Return(r)

SpecRateLimitConc == Init /\ [][NextRateLimitConc]_vars

\* ------------------------------------------------------------- auth.py
\* get_clerk_jwks (auth.py:12-35): the cached body while it is truthy and less
\* than one hour old, else a fetch; only httpx.HTTPError becomes the 503
GetClerkJwks_Le(cache, cache_time, now, outcome) ==
    IF cache.truthy /\ cache_time # None /\ now - cache_time <= Hour
    THEN [raised |-> "none", fetched |-> FALSE, jwks |-> cache,
          cache |-> cache, time |-> cache_time]
    ELSE IF outcome.kind = "http_error"
    THEN [raised |-> "HTTPException", fetched |-> TRUE, jwks |-> NoCache,
          cache |-> cache, time |-> cache_time]
    ELSE IF outcome.kind = "bad_json"
    THEN [raised |-> "ValueError", fetched |-> TRUE, jwks |-> NoCache,
          cache |-> cache, time |-> cache_time]
    ELSE [raised |-> "none", fetched |-> TRUE, jwks |-> outcome.body,
          cache |-> outcome.body, time |-> now]

GetClerkJwks(cache, cache_time, now, outcome) ==
    IF cache.truthy /\ cache_time # None /\ now - cache_time < Hour
    THEN [raised |-> "none", fetched |-> FALSE, jwks |-> cache,
          cache |-> cache, time |-> cache_time]
    ELSE IF outcome.kind = "http_error"
    THEN \* auth.py:31-35
         [raised |-> "HTTPException", fetched |-> TRUE, jwks |-> NoCache,
          cache |-> cache, time |-> cache_time]
    ELSE IF outcome.kind = "bad_json"
    THEN \* response.json() raises a ValueError, which is no httpx.HTTPError
         [raised |-> "ValueError", fetched |-> TRUE, jwks |-> NoCache,
          cache |-> cache, time |-> cache_time]
    ELSE \* auth.py:28-30
         [raised |-> "none", fetched |-> TRUE, jwks |-> outcome.body,
          cache |-> outcome.body, time |-> now]

RECURSIVE FindKey(_, _, _)
\* auth.py:48-49: the index of the first key with the token's kid, from i on; 0 if none
FindKey(keys, kid, i) ==
    IF i > Len(keys) THEN 0
    ELSE IF keys[i].kid = kid THEN i
    ELSE FindKey(keys, kid, i + 1)

\* get_signing_key (auth.py:37-71): every exception leaves as a 401
GetSigningKey(token, jwks) ==
    IF ~token.wellformed THEN [raised |-> TRUE, key |-> "bad"]
    ELSE IF token.kid = Absent THEN [raised |-> TRUE, key |-> "bad"]
    ELSE IF jwks.kind # "object" THEN [raised |-> TRUE, key |-> "bad"]
    ELSE LET i == FindKey(jwks.keys, token.kid, 1)
         IN  IF i = 0 THEN [raised |-> TRUE, key |-> "bad"]
             ELSE IF jwks.keys[i].rsa = "bad" THEN [raised |-> TRUE, key |-> "bad"]
             ELSE [raised |-> FALSE, key |-> jwks.keys[i].rsa]

\* jwt.decode (auth.py:100-111) with algorithms=["RS256"], audience=None, the
\* configured issuer and the library's default options besides the three
\* given: the signature, exp and iss are verified, and so is aud whenever the
\* token carries one (verify_aud is not switched off, and the audience None
\* is never among the token's audiences). Any failure is a JWTError.
JwtDecode_NoIssuerCheck(token, key) ==
    [raised |-> \/ token.alg # "RS256"
                \/ token.signer # key
                \/ token.expired
                \/ token.aud # Absent,
     sub |-> token.sub]

JwtDecode(token, key) ==
    [raised |-> \/ token.alg # "RS256"
                \/ token.signer # key
                \/ token.expired
                \/ token.aud # Absent
                \/ token.iss # Issuer,
     sub |-> token.sub]

Outcome(status, sub, jwks) ==
    [status |-> status, sub |-> sub, reached |-> TRUE, jwks |-> jwks]

\* verify_clerk_token (auth.py:73-125)
VerifyClerkToken_FetchFirst(header, cache, cache_time, now, outcome) ==
    LET token == header.token
        j == GetClerkJwks(cache, cache_time, now, outcome)
        k == GetSigningKey(token, j.jwks)
        d == JwtDecode(token, k.key)
    IN  IF j.raised = "HTTPException" THEN Outcome(503, Absent, j)
        ELSE IF j.raised = "ValueError" THEN Outcome(401, Absent, j)
        ELSE IF header.kind \in {"absent", "other_scheme", "bearer_empty"}
        THEN Outcome(401, Absent, j)
        ELSE IF k.raised THEN Outcome(401, Absent, j)
        ELSE IF d.raised THEN Outcome(401, Absent, j)
        ELSE IF d.sub = Absent \/ d.sub = "" THEN Outcome(401, Absent, j)
        ELSE Outcome(200, d.sub, j)

VerifyClerkToken(header, cache, cache_time, now, outcome) ==
    LET token == header.token
        j == GetClerkJwks(cache, cache_time, now, outcome)
        k == GetSigningKey(token, j.jwks)
        d == JwtDecode(token, k.key)
    IN  IF header.kind \in {"absent", "other_scheme", "bearer_empty"}
        THEN \* auth.py:80-90
             [status |-> 401, sub |-> Absent, reached |-> FALSE,
              jwks |-> [j EXCEPT !.raised = "none", !.fetched = FALSE,
                                 !.cache = cache, !.time = cache_time]]
        ELSE IF j.raised = "HTTPException" THEN Outcome(503, Absent, j)
        ELSE IF j.raised = "ValueError" THEN Outcome(401, Absent, j)
        ELSE IF k.raised THEN Outcome(401, Absent, j)
        ELSE IF d.raised THEN Outcome(401, Absent, j)
        ELSE IF d.sub = Absent \/ d.sub = "" THEN Outcome(401, Absent, j)
        ELSE Outcome(200, d.sub, j)

\* a request with an Authorization header reaches the dependency
Arrive(header) ==
    /\ verify.pc \in {"idle", "done"}
    /\ verify' = [IdleVerify EXCEPT !.pc = "pending", !.header = header]
    /\ UNCHANGED <<clock, limiterVars, jwks_cache, jwks_cache_time, jwksConcVars, userVars, chatVars, viewVars, storeVars>>

\* verify_clerk_token handles the request; the identity provider answers the
\* fetch, if one is made, with outcome
Verify(outcome) ==
    /\ verify.pc = "pending"
    /\ LET v == VerifyClerkToken(verify.header, jwks_cache, jwks_cache_time,
                                 clock, outcome)
       IN  /\ jwks_cache' = v.jwks.cache
           /\ jwks_cache_time' = v.jwks.time
           /\ verify' = [pc |-> "done", header |-> verify.header,
                         status |-> v.status, sub |-> v.sub,
                         reached |-> v.reached, fetched |-> v.jwks.fetched,
                         outcome |-> IF v.jwks.fetched THEN outcome.kind ELSE "none",
                         raised |-> v.jwks.raised,
                         hadKeySet |-> v.reached /\ jwks_cache.truthy,
                         age |-> IF v.reached /\ jwks_cache_time # None
                                 THEN clock - jwks_cache_time ELSE None,
                         fromCache |-> /\ v.reached /\ ~v.jwks.fetched
                                       /\ v.jwks.jwks = jwks_cache
                                       /\ v.jwks.cache = jwks_cache
                                       /\ v.jwks.time = jwks_cache_time,
                         stamped |-> /\ v.jwks.fetched
                                     /\ v.jwks.cache = v.jwks.jwks
                                     /\ v.jwks.time = clock,
                         cacheKept |-> /\ v.jwks.cache = jwks_cache
                                       /\ v.jwks.time = jwks_cache_time]
    /\ UNCHANGED <<clock, limiterVars, jwksConcVars, userVars, chatVars, viewVars, storeVars>>

\* the clock advances between token verifications
TickAuth ==
    /\ clock < MaxTimeAuth
    /\ clock' = clock + 1
    /\ UNCHANGED <<limiterVars, authVars, userVars, chatVars, viewVars, storeVars>>

NextAuth ==
    \/ TickAuth
    \/ \E header \in Headers : Arrive(header)
    \/ \E outcome \in Outcomes : Verify(outcome)

SpecAuth == Init /\ [][NextAuth]_vars

\* ------------------------------------------ get_clerk_jwks, concurrent calls
\* The calls run as coroutines of one event loop and interleave only at the
\* await of the GET (auth.py:25-26): the cache test (auth.py:17-19) and the two
\* assignments after the response (auth.py:28-30) each run without a switch.

\* auth.py:17-19: the cache is served
JwksFresh(cache, cache_time, now) ==
    cache.truthy /\ cache_time # None /\ now - cache_time < Hour

\* auth.py:27-35: what the call stores and returns once the GET has ended
JwksStore_KeepTime(cache, cache_time, now, outcome) ==
    IF outcome.kind = "http_error"
    THEN [raised |-> "HTTPException", jwks |-> NoCache, cache |-> cache, time |-> cache_time]
    ELSE IF outcome.kind = "bad_json"
    THEN [raised |-> "ValueError", jwks |-> NoCache, cache |-> cache, time |-> cache_time]
    ELSE [raised |-> "none", jwks |-> outcome.body, cache |-> outcome.body,
          time |-> cache_time]

JwksStore(cache, cache_time, now, outcome) ==
    IF outcome.kind = "http_error"
    THEN [raised |-> "HTTPException", jwks |-> NoCache, cache |-> cache, time |-> cache_time]
    ELSE IF outcome.kind = "bad_json"
    THEN [raised |-> "ValueError", jwks |-> NoCache, cache |-> cache, time |-> cache_time]
    ELSE [raised |-> "none", jwks |-> outcome.body, cache |-> outcome.body,
          time |-> now]

\* the call finds a fresh cache and returns it
JwksServe(c) ==
    /\ jwksCall[c].pc = "idle"
    /\ JwksFresh(jwks_cache, jwks_cache_time, clock)
    /\ jwksCall' = [jwksCall EXCEPT ![c] =
           [pc |-> "done", served |-> TRUE, age |-> clock - jwks_cache_time,
            raised |-> "none", overwrote |-> FALSE]]
    /\ UNCHANGED <<clock, limiterVars, jwks_cache, jwks_cache_time, verify, lastWrite, userVars, chatVars, viewVars, storeVars>>

\* the call finds no fresh cache and sends the GET
JwksStartFetch(c) ==
    /\ jwksCall[c].pc = "idle"
    /\ ~JwksFresh(jwks_cache, jwks_cache_time, clock)
    /\ jwksCall' = [jwksCall EXCEPT ![c] = [IdleJwksCall EXCEPT !.pc = "fetching"]]
    /\ UNCHANGED <<clock, limiterVars, jwks_cache, jwks_cache_time, verify, lastWrite, userVars, chatVars, viewVars, storeVars>>

\* the GET ends with outcome; a body is stored, whatever the cache now holds
\* (overwrote: another call's fetch had filled the cache in the meantime)
JwksEndFetch(c, outcome) ==
    /\ jwksCall[c].pc = "fetching"
    /\ LET st == JwksStore(jwks_cache, jwks_cache_time, clock, outcome)
       IN  /\ jwks_cache' = st.cache
           /\ jwks_cache_time' = st.time
           /\ lastWrite' = IF outcome.kind = "body"
                           THEN [body |-> outcome.body, time |-> clock]
                           ELSE lastWrite
           /\ jwksCall' = [jwksCall EXCEPT ![c] =
                  [pc |-> "done", served |-> FALSE, age |-> None,
                   raised |-> st.raised,
                   overwrote |-> /\ outcome.kind = "body"
                                 /\ JwksFresh(jwks_cache, jwks_cache_time, clock)]]
    /\ UNCHANGED <<clock, limiterVars, verify, userVars, chatVars, viewVars, storeVars>>

\* the caller has taken the result
JwksReturn(c) ==
    /\ jwksCall[c].pc = "done"
    /\ jwksCall' = [jwksCall EXCEPT ![c] = IdleJwksCall]
    /\ UNCHANGED <<clock, limiterVars, jwks_cache, jwks_cache_time, verify, lastWrite, userVars, chatVars, viewVars, storeVars>>

NextJwksConc ==
    \/ TickAuth
    \/ \E c \in JwksCalls : JwksServe(c)
    \/ \E c \in JwksCalls : JwksStartFetch(c)
    \/ \E c \in JwksCalls, outcome \in Outcomes : JwksEndFetch(c, outcome)
    \/ \E c \in JwksCalls : JwksReturn(c)

SpecJwksConc == Init /\ [][NextJwksConc]_vars

\* ----------------------------------------------------------- user_service
\* rows of a subject
RowsOf(table, clerk_user_id) == {r \in table : r.clerk_user_id = clerk_user_id}
\* ids no row uses
FreshIds(table) == Uuids \ {r.id : r \in table}

\* user_service.py:16-19: select by clerk_user_id, scalar_one_or_none()
FindUser_NeverFound(table, clerk_user_id) ==
    [raised |-> "none", user |-> NoUser]

FindUser(table, clerk_user_id) ==
    IF RowsOf(table, clerk_user_id) = {}
    THEN [raised |-> "none", user |-> NoUser]
    ELSE IF Cardinality(RowsOf(table, clerk_user_id)) = 1
    THEN [raised |-> "none", user |-> CHOOSE r \in RowsOf(table, clerk_user_id) : TRUE]
    ELSE [raised |-> "MultipleResultsFound", user |-> NoUser]

\* user_service.py:42-43 with models/user.py:10: the INSERT is committed
\* unless a row with this clerk_user_id exists (unique constraint)
InsertUser_NoUnique(table, row) ==
    [raised |-> "none", table |-> table \cup {row}]

InsertUser(table, row) ==
    IF RowsOf(table, row.clerk_user_id) # {}
    THEN [raised |-> "IntegrityError", table |-> table]
    ELSE [raised |-> "none", table |-> table \cup {row}]

\* user_service.py:21-45: what the call does with the looked-up user; the
\* UPDATE writes the changed attributes to the row of user.id, refresh reads
\* the row back
AfterLookup_NoEmailCheck(table, user, clerk_user_id, email, username, newid) ==
    IF user # NoUser
    THEN LET cur == CHOOSE r \in table : r.id = user.id
             upd == [cur EXCEPT
                        !.email = IF Truthy(email) /\ user.email # email
                                  THEN email ELSE @,
                        !.username = IF Truthy(username) /\ user.username # username
                                     THEN username ELSE @]
         IN  IF Truthy(email) \/ Truthy(username)
             THEN [raised |-> "none", ret |-> upd, table |-> (table \ {cur}) \cup {upd}]
             ELSE [raised |-> "none", ret |-> user, table |-> table]
    ELSE LET new_user == Profile(newid, clerk_user_id, email, username)
             ins == InsertUser(table, new_user)
         IN  [raised |-> ins.raised,
              ret |-> IF ins.raised = "none" THEN new_user ELSE NoUser,
              table |-> ins.table]

AfterLookup(table, user, clerk_user_id, email, username, newid) ==
    IF user # NoUser
    THEN LET cur == CHOOSE r \in table : r.id = user.id
             upd == [cur EXCEPT
                        !.email = IF Truthy(email) /\ user.email # email
                                  THEN email ELSE @,
                        !.username = IF Truthy(username) /\ user.username # username
                                     THEN username ELSE @]
         IN  IF Truthy(email) \/ Truthy(username)
             THEN [raised |-> "none", ret |-> upd, table |-> (table \ {cur}) \cup {upd}]
             ELSE [raised |-> "none", ret |-> user, table |-> table]
    ELSE IF ~Truthy(email)
    THEN [raised |-> "ValueError", ret |-> NoUser, table |-> table]
    ELSE LET new_user == Profile(newid, clerk_user_id, email, username)
             ins == InsertUser(table, new_user)
         IN  [raised |-> ins.raised,
              ret |-> IF ins.raised = "none" THEN new_user ELSE NoUser,
              table |-> ins.table]

\* user_service.py:6-45, run without interruption
GetOrCreate(table, clerk_user_id, email, username, newid) ==
    LET found == FindUser(table, clerk_user_id)
    IN  IF found.raised # "none"
        THEN [raised |-> found.raised, ret |-> NoUser, table |-> table]
        ELSE AfterLookup(table, found.user, clerk_user_id, email, username, newid)

\* the limiter's columns of the rows: a created row gets the column defaults
\* (models/user.py:16-17: hourly_prompt_count 0, last_prompt_reset now())
WithDefaults(rows, table, now) ==
    [id \in {r.id : r \in table} |->
        IF id \in DOMAIN rows THEN rows[id] ELSE Row(0, now)]

\* one get_or_create_user call, no other call in progress
GetOrCreateUser(clerk_user_id, email, username) ==
    /\ \A c \in UserCalls : gocCall[c].pc = "idle"
    /\ \E newid \in FreshIds(userTable) :
         LET res == GetOrCreate(userTable, clerk_user_id, email, username, newid)
         IN  /\ userTable' = res.table
             /\ users' = WithDefaults(users, res.table, clock)
             /\ lastGoc' = [called |-> TRUE, clerk_user_id |-> clerk_user_id,
                            email |-> email, username |-> username,
                            before |-> userTable, raised |-> res.raised,
                            ret |-> res.ret]
             /\ firstCall' =
                    IF res.raised = "none" /\ firstCall[clerk_user_id] = NoFirstCall
                    THEN [firstCall EXCEPT ![clerk_user_id] =
                              [id |-> res.ret.id, email |-> email]]
                    ELSE firstCall
    /\ UNCHANGED <<clock, lastCall, streak, grantLog, req, windowGrants, authVars, gocCall,
                   chatVars, viewVars, storeVars>>

NextUsers ==
    \E clerk_user_id \in Subjects :
        \E email \in EmailsFor(clerk_user_id), username \in Usernames :
            GetOrCreateUser(clerk_user_id, email, username)

SpecUsers == Init /\ [][NextUsers]_vars

\* ------------------------------------- get_or_create_user, concurrent calls
\* Each request has its own session (database.py:30-35); the calls interleave
\* at the awaits of the select (user_service.py:18) and of the commit (28, 43).

\* user_service.py:16-19: the call has run its select
GocLookup(c, clerk_user_id, email, username) ==
    /\ gocCall[c].pc = "idle"
    /\ gocCall' = [gocCall EXCEPT ![c] =
           [IdleUserCall EXCEPT !.pc = "looked", !.clerk_user_id = clerk_user_id,
                                !.email = email, !.username = username,
                                !.user = FindUser(userTable, clerk_user_id).user]]
    /\ UNCHANGED <<clock, limiterVars, authVars, userTable, lastGoc, firstCall, chatVars, viewVars, storeVars>>

\* user_service.py:21-45: the call acts on the user it looked up
\* (conflict: it found no row, and a row of the subject is there at its INSERT)
GocFinish(c) ==
    /\ gocCall[c].pc = "looked"
    /\ \E newid \in FreshIds(userTable) :
         LET call == gocCall[c]
             res == AfterLookup(userTable, call.user, call.clerk_user_id,
                                call.email, call.username, newid)
         IN  /\ userTable' = res.table
             /\ users' = WithDefaults(users, res.table, clock)
             /\ gocCall' = [gocCall EXCEPT ![c] =
                    [call EXCEPT !.pc = "done", !.raised = res.raised,
                                 !.ret = res.ret.id,
                                 !.conflict = /\ call.user = NoUser
                                              /\ Truthy(call.email)
                                              /\ RowsOf(userTable, call.clerk_user_id) # {}]]
    /\ UNCHANGED <<clock, lastCall, streak, grantLog, req, windowGrants, authVars,
                   lastGoc, firstCall, chatVars, viewVars, storeVars>>

\* the caller has taken the result
GocReturn(c) ==
    /\ gocCall[c].pc = "done"
    /\ gocCall' = [gocCall EXCEPT ![c] = IdleUserCall]
    /\ UNCHANGED <<clock, limiterVars, authVars, userTable, lastGoc, firstCall, chatVars, viewVars, storeVars>>

\* the arguments are those of the routers (chat.py:27-32, projects.py:27-32):
\* the placeholder email and no username
NextUsersConc ==
    \/ \E c \in UserCalls, clerk_user_id \in Subjects :
           GocLookup(c, clerk_user_id, Placeholder(clerk_user_id), Absent)
    \/ \E c \in UserCalls : GocFinish(c)
    \/ \E c \in UserCalls : GocReturn(c)

SpecUsersConc == Init /\ [][NextUsersConc]_vars

\* ------------------------------------------------------------ stream_chat
\* rate_limiter.py:8-47 on the limiter's columns of the rows
CheckRateLimitOn(rows, user_id, now) ==
    IF user_id \notin DOMAIN rows
    THEN [rows |-> rows, ret |-> Result(FALSE, 0)]
    ELSE LET before == rows[user_id]
             mid    == ResetStep(before, now)
             row1   == Commit(before, before, mid)
             chk    == CheckStep(mid)
             row2   == Commit(row1, mid, chk.user)
         IN  [rows |-> [rows EXCEPT ![user_id] = row2], ret |-> chk.ret]

\* chat.py:26-98: the user, the project checks, the rate limit, then the
\* message is saved and the completion is started
StreamChatSteps_LimitFirst(table, rows, projs, clerk_user_id, project_id, now, newid) ==
    LET goc   == GetOrCreate(table, clerk_user_id, Placeholder(clerk_user_id), Absent, newid)
        rows1 == WithDefaults(rows, goc.table, now)
        lim   == CheckRateLimitOn(rows1, goc.ret.id, now)
    IN  IF goc.raised # "none"
        THEN [status |-> 500, table |-> goc.table, rows |-> rows1,
              saved |-> FALSE, streamed |-> FALSE]
        ELSE IF ~lim.ret.allowed
        THEN [status |-> 429, table |-> goc.table, rows |-> lim.rows,
              saved |-> FALSE, streamed |-> FALSE]
        ELSE IF project_id \notin DOMAIN projs
        THEN [status |-> 404, table |-> goc.table, rows |-> lim.rows,
              saved |-> FALSE, streamed |-> FALSE]
        ELSE IF projs[project_id] # goc.ret.id
        THEN [status |-> 403, table |-> goc.table, rows |-> lim.rows,
              saved |-> FALSE, streamed |-> FALSE]
        ELSE [status |-> 200, table |-> goc.table, rows |-> lim.rows,
              saved |-> TRUE, streamed |-> TRUE]

StreamChatSteps(table, rows, projs, clerk_user_id, project_id, now, newid) ==
    LET goc   == GetOrCreate(table, clerk_user_id, Placeholder(clerk_user_id), Absent, newid)
        rows1 == WithDefaults(rows, goc.table, now)
        lim   == CheckRateLimitOn(rows1, goc.ret.id, now)
    IN  IF goc.raised # "none"
        THEN [status |-> 500, table |-> goc.table, rows |-> rows1,
              saved |-> FALSE, streamed |-> FALSE]
        ELSE IF project_id \notin DOMAIN projs
        THEN [status |-> 404, table |-> goc.table, rows |-> rows1,
              saved |-> FALSE, streamed |-> FALSE]
        ELSE IF projs[project_id] # goc.ret.id
        THEN [status |-> 403, table |-> goc.table, rows |-> rows1,
              saved |-> FALSE, streamed |-> FALSE]
        ELSE IF ~lim.ret.allowed
        THEN [status |-> 429, table |-> goc.table, rows |-> lim.rows,
              saved |-> FALSE, streamed |-> FALSE]
        ELSE [status |-> 200, table |-> goc.table, rows |-> lim.rows,
              saved |-> TRUE, streamed |-> TRUE]

\* one stream_chat request of a verified subject, handled on its own
StreamChat(clerk_user_id, project_id) ==
    /\ \A c \in UserCalls : gocCall[c].pc = "idle"
    /\ \A r \in Req : req[r].pc = "idle"
    /\ \E newid \in FreshIds(userTable) :
         LET res  == StreamChatSteps(userTable, users, projects, clerk_user_id,
                                     project_id, clock, newid)
             mine == RowsOf(res.table, clerk_user_id)
             id   == (CHOOSE r \in mine : TRUE).id
             had  == RowsOf(userTable, clerk_user_id) # {}
         IN  /\ userTable' = res.table
             /\ users' = res.rows
             /\ chatMessages' =
                    IF res.saved
                    THEN [chatMessages EXCEPT ![project_id] = @ + 1]
                    ELSE chatMessages
             /\ completions' = IF res.streamed THEN completions + 1 ELSE completions
             /\ lastChat' =
                    [called |-> TRUE, clerk_user_id |-> clerk_user_id,
                     project_id |-> project_id, status |-> res.status,
                     now |-> clock, hadRow |-> had,
                     before |-> IF had THEN users[id] ELSE Row(0, None),
                     after |-> res.rows[id],
                     saved |-> chatMessages' # chatMessages,
                     streamed |-> completions' # completions]
             /\ chatSeen' = chatSeen \cup {res.status}
    /\ UNCHANGED <<clock, lastCall, streak, grantLog, req, windowGrants, authVars,
                   lastGoc, firstCall, gocCall, projects, viewVars, storeVars>>

NextChat ==
    \/ Tick
    \/ \E clerk_user_id \in Subjects, project_id \in ProjectIds :
           StreamChat(clerk_user_id, project_id)

SpecChat == Init /\ [][NextChat]_vars

\* --------------------------------------------------------- get_rate_limit
Max(a, b) == IF a >= b THEN a ELSE b

\* users.py:61-101: the response for the subject of the token. A Clerk subject
\* is not a UUID, so the lookup by id (66-74) finds nothing more.
RateLimitResponse(table, rows, clerk_user_id, now) ==
    LET user == FindUser(table, clerk_user_id).user
    IN  IF user = NoUser
        THEN [found |-> FALSE, remaining_prompts |-> MAX_PROMPTS_PER_HOUR,
              reset_time |-> now + Hour]
        ELSE LET row == rows[user.id]
             IN  [found |-> TRUE,
                  remaining_prompts |->
                      Max(0, MAX_PROMPTS_PER_HOUR - row.hourly_prompt_count),
                  reset_time |->
                      IF row.last_prompt_reset # None
                      THEN IF row.last_prompt_reset + Hour < now
                           THEN now + Hour
                           ELSE row.last_prompt_reset + Hour
                      ELSE now + Hour]

\* one get_rate_limit request (wouldAllow: what check_rate_limit would answer
\* for this user at this very time)
GetRateLimit(clerk_user_id) ==
    /\ \A r \in Req : req[r].pc = "idle"
    /\ LET res  == RateLimitResponse(userTable, users, clerk_user_id, clock)
           user == FindUser(userTable, clerk_user_id).user
       IN  lastView' =
               [called |-> TRUE, clerk_user_id |-> clerk_user_id,
                found |-> res.found, now |-> clock,
                row |-> IF res.found THEN users[user.id] ELSE Row(0, None),
                remaining_prompts |-> res.remaining_prompts,
                reset_time |-> res.reset_time,
                wouldAllow |-> /\ res.found
                               /\ CheckRateLimitOn(users, user.id, clock).ret.allowed]
    /\ UNCHANGED <<clock, limiterVars, authVars, userVars, chatVars, storeVars>>

NextRateView ==
    \/ Tick
    \/ \E user_id \in UserIds : CheckRateLimit(user_id)
    \/ \E clerk_user_id \in Subjects : GetRateLimit(clerk_user_id)

SpecRateView == Init /\ [][NextRateView]_vars

\* --------------------------------- create_project / delete_project, concurrent
\* Each request has its own session; the requests interleave at the awaits of
\* the count (project_service.py:119) and of the commits (projects.py:108,
\* project_service.py:110, projects.py:204). They are requests of KnownSubject.
OwnedBy(projs, user_id) == {project_id \in DOMAIN projs : projs[project_id] = user_id}

\* project_service.py:112-122 with max_projects as projects.py:86 passes it
CheckMaxProjects(projs, user_id) == Cardinality(OwnedBy(projs, user_id)) < max_projects

\* projects.py:77-86: the user is fetched and the projects are counted
ProjCount(c, template_type) ==
    /\ projCall[c].pc = "idle"
    /\ nextProject <= MaxProjectsEver
    /\ projCall' = [projCall EXCEPT ![c] =
           [IdleProjectCall EXCEPT !.pc = "counted", !.op = "create_project",
                !.template_type = template_type,
                !.can_create = CheckMaxProjects(projects, KnownUser)]]
    /\ UNCHANGED <<clock, limiterVars, authVars, userVars, chatVars, viewVars,
                   files, nextProject, nextFile, lastReq>>

\* projects.py:87-109: 400 on the limit or the template, else the project row
ProjInsert(c) ==
    /\ projCall[c].pc = "counted"
    /\ nextProject <= MaxProjectsEver
    /\ IF ~projCall[c].can_create
          \/ projCall[c].template_type \notin DOMAIN TEMPLATE_FILES
       THEN /\ projCall' = [projCall EXCEPT ![c].pc = "done", ![c].status = 400]
            /\ UNCHANGED <<projects, chatMessages, nextProject>>
       ELSE /\ projects' = [project_id \in DOMAIN projects \cup {ProjectId(nextProject)} |->
                               IF project_id \in DOMAIN projects
                               THEN projects[project_id] ELSE KnownUser]
            /\ chatMessages' = [project_id \in DOMAIN projects' |->
                                   IF project_id \in DOMAIN chatMessages
                                   THEN chatMessages[project_id] ELSE 0]
            /\ nextProject' = nextProject + 1
            /\ projCall' = [projCall EXCEPT ![c].pc = "inserted",
                                            ![c].project_id = ProjectId(nextProject)]
    /\ UNCHANGED <<clock, limiterVars, authVars, userVars, completions, lastChat,
                   chatSeen, viewVars, files, nextFile, lastReq>>

\* projects.py:112 with project_service.py:90-110: the template's files
ProjFiles(c) ==
    /\ projCall[c].pc = "inserted"
    /\ nextFile + Len(TEMPLATE_FILES[projCall[c].template_type]) - 1 <= MaxFilesEver
    /\ files' = IF projCall[c].project_id \in DOMAIN projects
                THEN files \cup InitialFiles(projCall[c].project_id,
                                             projCall[c].template_type, nextFile)
                ELSE files
    /\ nextFile' = nextFile + Len(TEMPLATE_FILES[projCall[c].template_type])
    /\ projCall' = [projCall EXCEPT ![c].pc = "done",
           ![c].status = IF projCall[c].project_id \in DOMAIN projects
                         THEN 201 ELSE 500]
    /\ UNCHANGED <<clock, limiterVars, authVars, userVars, chatVars, viewVars,
                   nextProject, lastReq>>

\* projects.py:184-201: the user and the project are fetched
DelLookup(c, project_id) ==
    /\ projCall[c].pc = "idle"
    /\ projCall' = [projCall EXCEPT ![c] =
           IF project_id \notin DOMAIN projects
           THEN [IdleProjectCall EXCEPT !.pc = "done", !.op = "delete_project",
                                        !.status = 404]
           ELSE IF projects[project_id] # KnownUser
           THEN [IdleProjectCall EXCEPT !.pc = "done", !.op = "delete_project",
                                        !.status = 403]
           ELSE [IdleProjectCall EXCEPT !.pc = "fetched", !.op = "delete_project",
                                        !.project_id = project_id]]
    /\ UNCHANGED <<clock, limiterVars, authVars, userVars, chatVars, viewVars,
                   files, nextProject, nextFile, lastReq>>

\* projects.py:203-204: the row and, by cascade, its files and messages go;
\* a row another request has deleted makes the flush fail
DelCommit(c) ==
    /\ projCall[c].pc = "fetched"
    /\ IF projCall[c].project_id \in DOMAIN projects
       THEN /\ projects' = [project_id \in DOMAIN projects \ {projCall[c].project_id} |->
                               projects[project_id]]
            /\ chatMessages' = [project_id \in DOMAIN projects' |-> chatMessages[project_id]]
            /\ files' = {f \in files : f.project_id # projCall[c].project_id}
            /\ projCall' = [projCall EXCEPT ![c].pc = "done", ![c].status = 204]
       ELSE /\ projCall' = [projCall EXCEPT ![c].pc = "done", ![c].status = 500]
            /\ UNCHANGED <<projects, chatMessages, files>>
    /\ UNCHANGED <<clock, limiterVars, authVars, userVars, completions, lastChat,
                   chatSeen, viewVars, nextProject, nextFile, lastReq>>

\* the response is sent
ProjReturn(c) ==
    /\ projCall[c].pc = "done"
    /\ projCall' = [projCall EXCEPT ![c] = IdleProjectCall]
    /\ UNCHANGED <<clock, limiterVars, authVars, userVars, chatVars, viewVars,
                   files, nextProject, nextFile, lastReq>>

NextProjectsConc ==
    \/ \E c \in ProjectCalls, template_type \in TemplateTypes : ProjCount(c, template_type)
    \/ \E c \in ProjectCalls : ProjInsert(c)
    \/ \E c \in ProjectCalls : ProjFiles(c)
    \/ \E c \in ProjectCalls :
           \E project_id \in {ProjectId(n) : n \in 1..MaxProjectsEver} :
               DelLookup(c, project_id)
    \/ \E c \in ProjectCalls : DelCommit(c)
    \/ \E c \in ProjectCalls : ProjReturn(c)

SpecProjectsConc == Init /\ [][NextProjectsConc]_vars

\* ------------------------------------- project and file requests, one at a time
\* the requester's users row id, Absent without a row
RequesterId(table, clerk_user_id) == FindUser(table, clerk_user_id).user.id
\* the project exists and belongs to another users row than the requester's
Foreign(clerk_user_id, project_id) ==
    /\ project_id \in DOMAIN projects
    /\ projects[project_id] # RequesterId(userTable, clerk_user_id)
FileOf(rows, file_id) == {f \in rows : f.id = file_id}
AllProjectIds == {ProjectId(n) : n \in 1..MaxProjectsEver}
AllFileIds == {FileId(n) : n \in 1..MaxFilesEver}

\* files.py:44-49: the files of the project with this name
ExistingFile(rows, project_id, name) ==
    {f \in rows : f.project_id = project_id /\ f.name = name}

\* files.py:139-145: the other files of the project with this name
OtherFileNamed_AnyProject(rows, project_id, name, file_id) ==
    {f \in rows : f.project_id # project_id /\ f.name = name /\ f.id # file_id}

OtherFileNamed(rows, project_id, name, file_id) ==
    {f \in rows : f.project_id = project_id /\ f.name = name /\ f.id # file_id}

WithProject(projs, project_id, user_id) ==
    [p \in DOMAIN projs \cup {project_id} |->
        IF p \in DOMAIN projs THEN projs[p] ELSE user_id]
WithoutProject(projs, project_id) ==
    [p \in DOMAIN projs \ {project_id} |-> projs[p]]
\* chat messages follow the projects (a new project has none, cascade on delete)
MessagesOf(msgs, projs) ==
    [p \in DOMAIN projs |-> IF p \in DOMAIN msgs THEN msgs[p] ELSE 0]

\* projects.py:70-114
CreateProject(clerk_user_id, template_type) ==
    /\ \A c \in ProjectCalls : projCall[c].pc = "idle"
    /\ nextProject <= MaxProjectsEver
    /\ template_type \in DOMAIN TEMPLATE_FILES
       => nextFile + Len(TEMPLATE_FILES[template_type]) - 1 <= MaxFilesEver
    /\ \E newid \in FreshIds(userTable) :
         LET goc == GetOrCreate(userTable, clerk_user_id, Placeholder(clerk_user_id),
                                Absent, newid)
             ok  == /\ CheckMaxProjects(projects, goc.ret.id)
                    /\ template_type \in DOMAIN TEMPLATE_FILES
             project_id == ProjectId(nextProject)
         IN  /\ userTable' = goc.table
             /\ users' = WithDefaults(users, goc.table, clock)
             /\ projects' = IF ok THEN WithProject(projects, project_id, goc.ret.id)
                            ELSE projects
             /\ chatMessages' = MessagesOf(chatMessages, projects')
             /\ files' = IF ok
                         THEN files \cup InitialFiles(project_id, template_type, nextFile)
                         ELSE files
             /\ nextProject' = IF ok THEN nextProject + 1 ELSE nextProject
             /\ nextFile' = IF ok THEN nextFile + Len(TEMPLATE_FILES[template_type])
                            ELSE nextFile
             /\ lastReq' = [NoReq EXCEPT !.called = TRUE, !.op = "create_project",
                                !.status = IF ok THEN 201 ELSE 400,
                                !.changed = ok]
    /\ UNCHANGED <<clock, lastCall, streak, grantLog, req, windowGrants, authVars,
                   lastGoc, firstCall, gocCall, completions, lastChat, chatSeen,
                   viewVars, projCall>>

\* files.py:18-69
CreateFile(clerk_user_id, project_id, name, file_type, content) ==
    /\ \A c \in ProjectCalls : projCall[c].pc = "idle"
    /\ nextFile <= MaxFilesEver
    /\ LET existing == ExistingFile(files, project_id, name)
           status == IF file_type \notin VALID_FILE_TYPES THEN 400
                     ELSE IF project_id \notin DOMAIN projects THEN 404
                     ELSE IF Cardinality(existing) > 1 THEN 500
                     ELSE IF existing # {} THEN 400
                     ELSE 201
       IN  /\ files' = IF status = 201
                       THEN files \cup {File(FileId(nextFile), project_id, name,
                                             IF Truthy(content) THEN content ELSE "")}
                       ELSE files
           /\ nextFile' = IF status = 201 THEN nextFile + 1 ELSE nextFile
           /\ lastReq' = [NoReq EXCEPT !.called = TRUE, !.op = "create_file",
                              !.foreign = Foreign(clerk_user_id, project_id),
                              !.status = status, !.changed = (status = 201),
                              !.taken = \E f \in files :
                                            f.project_id = project_id /\ f.name = name]
    /\ UNCHANGED <<clock, limiterVars, authVars, userVars, chatVars, viewVars,
                   nextProject, projCall>>

\* files.py:121-157
RenameFile(clerk_user_id, file_id, name) ==
    /\ \A c \in ProjectCalls : projCall[c].pc = "idle"
    /\ LET found == FileOf(files, file_id)
           file  == CHOOSE f \in found : TRUE
           other == OtherFileNamed(files, file.project_id, name, file_id)
           status == IF found = {} THEN 404
                     ELSE IF Cardinality(other) > 1 THEN 500
                     ELSE IF other # {} THEN 400
                     ELSE 200
       IN  /\ files' = IF status = 200
                       THEN (files \ {file}) \cup {[file EXCEPT !.name = name]}
                       ELSE files
           /\ lastReq' = [NoReq EXCEPT !.called = TRUE, !.op = "rename_file",
                              !.foreign = /\ found # {}
                                          /\ Foreign(clerk_user_id, file.project_id),
                              !.status = status, !.changed = (files' # files),
                              !.sameName = (found # {} /\ file.name = name),
                              !.taken = /\ found # {}
                                        /\ \E f \in files :
                                               /\ f.project_id = file.project_id
                                               /\ f.name = name
                                               /\ f.id # file_id]
    /\ UNCHANGED <<clock, limiterVars, authVars, userVars, chatVars, viewVars,
                   nextProject, nextFile, projCall>>

\* files.py:159-178
DeleteFile(clerk_user_id, file_id) ==
    /\ \A c \in ProjectCalls : projCall[c].pc = "idle"
    /\ LET found == FileOf(files, file_id)
           file  == CHOOSE f \in found : TRUE
       IN  /\ files' = files \ found
           /\ lastReq' = [NoReq EXCEPT !.called = TRUE, !.op = "delete_file",
                              !.foreign = /\ found # {}
                                          /\ Foreign(clerk_user_id, file.project_id),
                              !.status = IF found = {} THEN 404 ELSE 204,
                              !.changed = (found # {})]
    /\ UNCHANGED <<clock, limiterVars, authVars, userVars, chatVars, viewVars,
                   nextProject, nextFile, projCall>>

\* the requests of one user, KnownSubject: the file handlers do not read the
\* requester (files.py:41, 136, 173)
NextFiles ==
    \/ \E template_type \in TemplateTypes : CreateProject(KnownSubject, template_type)
    \/ \E project_id \in AllProjectIds, name \in FileNames, file_type \in FileTypes :
           CreateFile(KnownSubject, project_id, name, file_type, Absent)
    \/ \E file_id \in AllFileIds, name \in FileNames :
           RenameFile(KnownSubject, file_id, name)
    \/ \E file_id \in AllFileIds : DeleteFile(KnownSubject, file_id)

SpecFiles == Init /\ [][NextFiles]_vars

\* projects.py:116-142
GetProject(clerk_user_id, project_id) ==
    /\ \A c \in ProjectCalls : projCall[c].pc = "idle"
    /\ \E newid \in FreshIds(userTable) :
         LET goc == GetOrCreate(userTable, clerk_user_id, Placeholder(clerk_user_id),
                                Absent, newid)
             status == IF project_id \notin DOMAIN projects THEN 404
                       ELSE IF projects[project_id] # goc.ret.id THEN 403
                       ELSE 200
         IN  /\ userTable' = goc.table
             /\ users' = WithDefaults(users, goc.table, clock)
             /\ lastReq' = [NoReq EXCEPT !.called = TRUE, !.op = "get_project",
                                !.foreign = /\ project_id \in DOMAIN projects
                                            /\ projects[project_id] # goc.ret.id,
                                !.status = status, !.disclosed = (status = 200)]
    /\ UNCHANGED <<clock, lastCall, streak, grantLog, req, windowGrants, authVars,
                   lastGoc, firstCall, gocCall, chatVars, viewVars,
                   files, nextProject, nextFile, projCall>>

\* projects.py:177-206
DeleteProject(clerk_user_id, project_id) ==
    /\ \A c \in ProjectCalls : projCall[c].pc = "idle"
    /\ \E newid \in FreshIds(userTable) :
         LET goc == GetOrCreate(userTable, clerk_user_id, Placeholder(clerk_user_id),
                                Absent, newid)
             status == IF project_id \notin DOMAIN projects THEN 404
                       ELSE IF projects[project_id] # goc.ret.id THEN 403
                       ELSE 204
         IN  /\ userTable' = goc.table
             /\ users' = WithDefaults(users, goc.table, clock)
             /\ projects' = IF status = 204 THEN WithoutProject(projects, project_id)
                            ELSE projects
             /\ chatMessages' = MessagesOf(chatMessages, projects')
             /\ files' = IF status = 204
                         THEN {f \in files : f.project_id # project_id}
                         ELSE files
             /\ lastReq' = [NoReq EXCEPT !.called = TRUE, !.op = "delete_project",
                                !.foreign = /\ project_id \in DOMAIN projects
                                            /\ projects[project_id] # goc.ret.id,
                                !.status = status, !.changed = (status = 204)]
    /\ UNCHANGED <<clock, lastCall, streak, grantLog, req, windowGrants, authVars,
                   lastGoc, firstCall, gocCall, completions, lastChat, chatSeen,
                   viewVars, nextProject, nextFile, projCall>>

\* files.py:71-93
GetFiles(clerk_user_id, project_id) ==
    /\ \A c \in ProjectCalls : projCall[c].pc = "idle"
    /\ lastReq' = [NoReq EXCEPT !.called = TRUE, !.op = "get_files",
                       !.foreign = Foreign(clerk_user_id, project_id),
                       !.status = IF project_id \in DOMAIN projects THEN 200 ELSE 404,
                       !.disclosed = (project_id \in DOMAIN projects)]
    /\ UNCHANGED <<clock, limiterVars, authVars, userVars, chatVars, viewVars,
                   files, nextProject, nextFile, projCall>>

\* files.py:95-119
UpdateFile(clerk_user_id, file_id, content) ==
    /\ \A c \in ProjectCalls : projCall[c].pc = "idle"
    /\ LET found == FileOf(files, file_id)
           file  == CHOOSE f \in found : TRUE
       IN  /\ files' = IF found # {} /\ content # Absent
                       THEN (files \ {file}) \cup {[file EXCEPT !.content = content]}
                       ELSE files
           /\ lastReq' = [NoReq EXCEPT !.called = TRUE, !.op = "update_file",
                              !.foreign = /\ found # {}
                                          /\ Foreign(clerk_user_id, file.project_id),
                              !.status = IF found = {} THEN 404 ELSE 200,
                              !.changed = (files' # files),
                              !.disclosed = (found # {})]
    /\ UNCHANGED <<clock, limiterVars, authVars, userVars, chatVars, viewVars,
                   nextProject, nextFile, projCall>>

\* the requests that name a project or a file, by either subject
NextOwnership ==
    \/ \E clerk_user_id \in Subjects, project_id \in ProjectIds :
           GetProject(clerk_user_id, project_id)
    \/ \E clerk_user_id \in Subjects, project_id \in ProjectIds :
           DeleteProject(clerk_user_id, project_id)
    \/ \E clerk_user_id \in Subjects, project_id \in ProjectIds, name \in FileNames :
           \E file_type \in FileTypes :
               CreateFile(clerk_user_id, project_id, name, file_type, Absent)
    \/ \E clerk_user_id \in Subjects, project_id \in ProjectIds :
           GetFiles(clerk_user_id, project_id)
    \/ \E clerk_user_id \in Subjects, file_id \in AllFileIds, content \in Contents :
           UpdateFile(clerk_user_id, file_id, content)
    \/ \E clerk_user_id \in Subjects, file_id \in AllFileIds, name \in FileNames :
           RenameFile(clerk_user_id, file_id, name)
    \/ \E clerk_user_id \in Subjects, file_id \in AllFileIds :
           DeleteFile(clerk_user_id, file_id)

SpecOwnership == Init /\ [][NextOwnership]_vars

\* ------------------------------------------------ claims: rate limiter
KnownRow == users[KnownUser]
SeqCall == lastCall.called /\ lastCall.found

\* C1: counting the calls from a zero counter with no reset in between, the
\* k-th call (k <= max_prompts) returns (true, max_prompts - k) and call
\* number max_prompts + 1 returns (false, 0).
C1_QuotaSequence ==
    SeqCall =>
        /\ (streak >= 1 /\ streak <= MAX_PROMPTS_PER_HOUR) =>
               lastCall.ret = Result(TRUE, MAX_PROMPTS_PER_HOUR - streak)
        /\ streak = MAX_PROMPTS_PER_HOUR + 1 => lastCall.ret = Result(FALSE, 0)

C1_Witness ==
    /\ SeqCall
    /\ streak = MAX_PROMPTS_PER_HOUR + 1
    /\ lastCall.ret = Result(FALSE, 0)
    /\ lastCall.before.hourly_prompt_count = MAX_PROMPTS_PER_HOUR

\* C2: after every check_rate_limit call (requests handled one at a time) the
\* persisted hourly_prompt_count lies in 0..max_prompts.
C2_CountInRange ==
    /\ KnownRow.hourly_prompt_count >= 0
    /\ KnownRow.hourly_prompt_count <= MAX_PROMPTS_PER_HOUR

C2_Witness ==
    /\ SeqCall
    /\ lastCall.after = KnownRow
    /\ KnownRow.hourly_prompt_count = MAX_PROMPTS_PER_HOUR
    /\ KnownRow.last_prompt_reset > 0

\* C3: a call made strictly more than one hour after last_prompt_reset returns
\* (true, max_prompts - 1), whatever the counter was; the row then holds
\* counter 1 and last_prompt_reset = the call time.
C3_ResetAfterWindow ==
    (/\ SeqCall
     /\ lastCall.before.last_prompt_reset # None
     /\ lastCall.now - lastCall.before.last_prompt_reset > Hour)
    => /\ lastCall.ret = Result(TRUE, MAX_PROMPTS_PER_HOUR - 1)
       /\ lastCall.after = Row(1, lastCall.now)

C3_Witness ==
    /\ SeqCall
    /\ lastCall.before.last_prompt_reset # None
    /\ lastCall.now - lastCall.before.last_prompt_reset > Hour
    /\ lastCall.before.hourly_prompt_count = MAX_PROMPTS_PER_HOUR
    /\ lastCall.ret.allowed

\* C4: a call made at most one hour (exactly one hour included) after
\* last_prompt_reset does not reset: the anchor stays, the counter is not
\* zeroed, and an exhausted user gets (false, 0).
C4_NoResetAtBoundary ==
    (/\ SeqCall
     /\ lastCall.before.last_prompt_reset # None
     /\ lastCall.now - lastCall.before.last_prompt_reset <= Hour)
    => /\ lastCall.after.last_prompt_reset = lastCall.before.last_prompt_reset
       /\ lastCall.mid = lastCall.before
       /\ lastCall.after.hourly_prompt_count >= lastCall.before.hourly_prompt_count
       /\ lastCall.before.hourly_prompt_count >= MAX_PROMPTS_PER_HOUR
              => lastCall.ret = Result(FALSE, 0)

C4_Witness ==
    /\ SeqCall
    /\ lastCall.before.last_prompt_reset # None
    /\ lastCall.now - lastCall.before.last_prompt_reset = Hour
    /\ lastCall.before.hourly_prompt_count = MAX_PROMPTS_PER_HOUR
    /\ lastCall.ret = Result(FALSE, 0)
    /\ lastCall.after = lastCall.before

RECURSIVE SumLog(_, _, _)
\* the number of allowed calls logged at the times from..to
SumLog(log, from, to) ==
    IF from > to THEN 0
    ELSE (IF from >= 0 THEN log[from] ELSE 0) + SumLog(log, from + 1, to)

\* allowed calls in the hour that ends now: the times t with now - Hour < t <= now
GrantsLastHour == SumLog(grantLog, clock - Hour + 1, clock)
\* allowed calls since the current window anchor last_prompt_reset
GrantsInWindow ==
    IF KnownRow.last_prompt_reset = None THEN SumLog(grantLog, 0, clock)
    ELSE SumLog(grantLog, KnownRow.last_prompt_reset, clock)

\* C6 (as claimed): in every one-hour interval at most max_prompts calls are allowed.
C6_RollingQuota == GrantsLastHour <= MAX_PROMPTS_PER_HOUR

\* C6 (amended): the quota is per window anchored at last_prompt_reset: at most
\* max_prompts calls are allowed since the current anchor, and a one-hour
\* interval, which spans at most one reset, holds at most 2 * max_prompts.
C6_FixedWindowQuota ==
    /\ GrantsInWindow <= MAX_PROMPTS_PER_HOUR
    /\ GrantsLastHour <= 2 * MAX_PROMPTS_PER_HOUR

C6_Witness ==
    /\ SeqCall
    /\ GrantsLastHour = 2 * MAX_PROMPTS_PER_HOUR
    /\ GrantsInWindow = MAX_PROMPTS_PER_HOUR
    /\ KnownRow.last_prompt_reset = clock

\* C7: a call that finds the (possibly just-reset) counter >= max_prompts
\* returns (false, 0) and leaves hourly_prompt_count as it was.
C7_DeniedDoesNotIncrement ==
    (SeqCall /\ lastCall.mid.hourly_prompt_count >= MAX_PROMPTS_PER_HOUR)
    => /\ lastCall.ret = Result(FALSE, 0)
       /\ lastCall.after.hourly_prompt_count = lastCall.before.hourly_prompt_count
       /\ lastCall.after.hourly_prompt_count = lastCall.mid.hourly_prompt_count

\* the second denied call in a row
C7_Witness ==
    /\ SeqCall
    /\ streak = MAX_PROMPTS_PER_HOUR + 2
    /\ lastCall.mid.hourly_prompt_count >= MAX_PROMPTS_PER_HOUR
    /\ lastCall.ret = Result(FALSE, 0)
    /\ lastCall.after.hourly_prompt_count = MAX_PROMPTS_PER_HOUR

\* two requests that have both returned after loading the same row of the
\* known user inside the window (neither applied a reset)
SameRead(p, q) ==
    /\ p # q
    /\ req[p].pc = "done" /\ req[q].pc = "done"
    /\ req[p].user_id = KnownUser /\ req[q].user_id = KnownUser
    /\ req[p].loaded = req[q].loaded
    /\ ~req[p].reset /\ ~req[q].reset

\* C5: nothing serialises two requests of one user: two calls that read the
\* same pre-increment count below max_prompts both return allowed = true and
\* both write back the same value read + 1, so one grant is not recorded.
C5_SameReadBothAllowed ==
    \A p, q \in Req :
        (SameRead(p, q) /\ req[p].loaded.hourly_prompt_count < MAX_PROMPTS_PER_HOUR)
        => /\ req[p].ret.allowed /\ req[q].ret.allowed
           /\ req[p].user.hourly_prompt_count = req[p].loaded.hourly_prompt_count + 1
           /\ req[q].user.hourly_prompt_count = req[p].loaded.hourly_prompt_count + 1

\* the lost update: more than max_prompts calls allowed in the window while the
\* persisted counter holds fewer grants than were given
C5_Witness ==
    \E p, q \in Req :
        /\ SameRead(p, q)
        /\ req[p].ret.allowed /\ req[q].ret.allowed
        /\ KnownRow.last_prompt_reset = req[p].loaded.last_prompt_reset
        /\ KnownRow.hourly_prompt_count = req[p].loaded.hourly_prompt_count + 1
        /\ windowGrants > MAX_PROMPTS_PER_HOUR
        /\ KnownRow.hourly_prompt_count < windowGrants

\* --------------------------------------------------------- claims: auth
Verified == verify.pc = "done" /\ verify.reached
\* the cache held a key set less than one hour old when the call was made
FreshCache == verify.hadKeySet /\ verify.age # None /\ verify.age < Hour

\* C8: a get_clerk_jwks call made less than one hour after the fetch of the
\* cached key set returns that key set without fetching; a call at one hour or
\* more, or with nothing cached, fetches, and what it then returns is the newly
\* fetched body stamped with the call time, never the old one.
C8_CacheReuse ==
    Verified =>
        /\ FreshCache => (~verify.fetched /\ verify.fromCache /\ verify.raised = "none")
        /\ ~FreshCache =>
              /\ verify.fetched /\ ~verify.fromCache
              /\ verify.outcome = "body" => (verify.raised = "none" /\ verify.stamped)
              /\ verify.outcome # "body" => (verify.raised # "none" /\ ~verify.stamped)

C8_Witness ==
    /\ Verified
    /\ verify.hadKeySet
    /\ verify.age = Hour
    /\ verify.fetched
    /\ verify.outcome = "body"
    /\ verify.stamped
    /\ jwks_cache.truthy

\* C9 (as claimed): a request with a non-empty Bearer token whose fetch fails
\* (transport error, error status, or a body that is not JSON) while no fresh
\* key set is cached ends in 503, never in 401.
C9_FetchFailureIs503 ==
    (/\ verify.pc = "done"
     /\ verify.header.kind = "bearer"
     /\ ~FreshCache
     /\ verify.fetched
     /\ verify.outcome \in {"http_error", "bad_json"})
    => verify.status = 503

\* the keys of the current key set that carry the token's kid
KeysFor(token) ==
    {i \in 1..Len(jwks_cache.keys) : jwks_cache.keys[i].kid = token.kid}

\* C10 (as claimed): with a key set obtained, a token signed with RS256 by the
\* key its kid names in the current key set, unexpired, with the configured
\* issuer and a subject, is answered with that subject.
C10_ValidTokenReturnsSub ==
    (/\ Verified
     /\ verify.raised = "none"
     /\ jwks_cache.kind = "object"
     /\ verify.header.token.wellformed
     /\ verify.header.token.alg = "RS256"
     /\ ~verify.header.token.expired
     /\ verify.header.token.iss = Issuer
     /\ verify.header.token.sub \notin {Absent, ""}
     /\ KeysFor(verify.header.token) # {}
     /\ \A i \in KeysFor(verify.header.token) :
            jwks_cache.keys[i].rsa = verify.header.token.signer)
    => (verify.status = 200 /\ verify.sub = verify.header.token.sub)

\* the verified token and the keys of the obtained key set
Tok == verify.header.token
KeySetObtained ==
    Verified /\ verify.raised = "none" /\ jwks_cache.kind = "object"

\* C11: with a key set obtained, a token whose header names no kid, whose kid
\* matches no key, whose signature, expiry or issuer check fails, or whose
\* payload has no subject is answered 401 and no subject id is returned.
C11_BadTokenIs401 ==
    (/\ KeySetObtained
     /\ \/ Tok.kid = Absent
        \/ KeysFor(Tok) = {}
        \/ \A i \in KeysFor(Tok) : jwks_cache.keys[i].rsa # Tok.signer
        \/ Tok.alg # "RS256"
        \/ Tok.expired
        \/ Tok.iss # Issuer
        \/ Tok.sub = Absent)
    => (verify.status = 401 /\ verify.sub = Absent)

C11_Witness ==
    /\ KeySetObtained
    /\ KeysFor(Tok) # {}
    /\ \A i \in KeysFor(Tok) : jwks_cache.keys[i].rsa = Tok.signer
    /\ Tok.wellformed /\ Tok.alg = "RS256" /\ ~Tok.expired /\ Tok.sub = "user_a"
    /\ Tok.aud = Absent
    /\ Tok.iss # Issuer
    /\ verify.status = 401

\* C12: a request whose Authorization header is absent, does not start with
\* "Bearer ", or carries an empty token is answered 401 before the key set is
\* consulted: get_clerk_jwks is not called, nothing is fetched, and the cache
\* and its timestamp are as they were.
C12_BadHeaderIs401NoFetch ==
    (/\ verify.pc = "done"
     /\ verify.header.kind \in {"absent", "other_scheme", "bearer_empty"})
    => /\ verify.status = 401
       /\ verify.sub = Absent
       /\ ~verify.reached
       /\ ~verify.fetched
       /\ verify.cacheKept

\* such a request handled while nothing is cached
C12_Witness ==
    /\ verify.pc = "done"
    /\ verify.header.kind = "bearer_empty"
    /\ verify.status = 401
    /\ ~verify.fetched
    /\ jwks_cache = NoCache
    /\ jwks_cache_time = None

\* C13: under every interleaving of concurrent get_clerk_jwks calls the cache
\* holds the body and the timestamp stored by one and the same fetch (the last
\* to complete), and a call served from the cache is served a pair less than
\* one hour old.
C13_CachePairFromOneFetch ==
    /\ jwks_cache = lastWrite.body
    /\ jwks_cache_time = lastWrite.time
    /\ \A c \in JwksCalls :
           (jwksCall[c].pc = "done" /\ jwksCall[c].served)
           => (jwksCall[c].age >= 0 /\ jwksCall[c].age < Hour)

\* one call's fetch has overwritten the pair another call's fetch had stored
\* while it was in flight, and a call has since been served from the cache
C13_Witness ==
    \E c, d \in JwksCalls :
        /\ c # d
        /\ jwksCall[c].pc = "done" /\ jwksCall[c].overwrote
        /\ jwksCall[d].pc = "done" /\ jwksCall[d].served
        /\ jwks_cache_time # None /\ jwks_cache_time < clock

\* C14: once a get_or_create_user call has returned a record for a subject,
\* every later call with the same subject and the same email, the calls being
\* handled one at a time, returns a record with the same internal id, and the
\* table then holds exactly one row of that subject.
C14_SequentialIdempotent ==
    (/\ lastGoc.called
     /\ firstCall[lastGoc.clerk_user_id] # NoFirstCall
     /\ lastGoc.email = firstCall[lastGoc.clerk_user_id].email)
    => /\ lastGoc.raised = "none"
       /\ lastGoc.ret.id = firstCall[lastGoc.clerk_user_id].id
       /\ Cardinality(RowsOf(userTable, lastGoc.clerk_user_id)) = 1

\* a repeated call for a subject an earlier call created returned the same id
C14_Witness ==
    /\ lastGoc.called
    /\ lastGoc.clerk_user_id # KnownSubject
    /\ RowsOf(lastGoc.before, lastGoc.clerk_user_id) # {}
    /\ lastGoc.email = firstCall[lastGoc.clerk_user_id].email
    /\ lastGoc.raised = "none"
    /\ lastGoc.ret.id = firstCall[lastGoc.clerk_user_id].id

\* C15: a get_or_create_user call for a subject without a row, given no email
\* or the empty email, raises ValueError and leaves the users table as it was.
C15_NoEmailNoRecord ==
    (/\ lastGoc.called
     /\ RowsOf(lastGoc.before, lastGoc.clerk_user_id) = {}
     /\ ~Truthy(lastGoc.email))
    => /\ lastGoc.raised = "ValueError"
       /\ userTable = lastGoc.before
       /\ DOMAIN users = {r.id : r \in lastGoc.before}

\* the empty email was given for a subject without a row
C15_Witness ==
    /\ lastGoc.called
    /\ RowsOf(lastGoc.before, lastGoc.clerk_user_id) = {}
    /\ lastGoc.email = ""
    /\ lastGoc.username = "ann"
    /\ lastGoc.raised = "ValueError"
    /\ RowsOf(userTable, lastGoc.clerk_user_id) = {}

\* C16: under every interleaving of concurrent get_or_create_user calls the
\* users table holds at most one row per subject, and a call that missed the
\* lookup and reaches its INSERT when a row of the subject exists is rejected
\* by the unique constraint.
C16_OneRowPerSubject ==
    /\ \A clerk_user_id \in Subjects :
           Cardinality(RowsOf(userTable, clerk_user_id)) <= 1
    /\ \A c \in UserCalls :
           (gocCall[c].pc = "done" /\ gocCall[c].conflict)
           => gocCall[c].raised = "IntegrityError"

\* two calls for the same new subject both missed the lookup; one created the
\* row, the other was rejected
C16_Witness ==
    \E c, d \in UserCalls :
        /\ c # d
        /\ gocCall[c].pc = "done" /\ gocCall[d].pc = "done"
        /\ gocCall[c].clerk_user_id = gocCall[d].clerk_user_id
        /\ gocCall[c].user = NoUser /\ gocCall[d].user = NoUser
        /\ gocCall[c].raised = "none" /\ gocCall[c].ret # Absent
        /\ gocCall[d].raised = "IntegrityError"
        /\ Cardinality(RowsOf(userTable, gocCall[c].clerk_user_id)) = 1

\* C17: a get_or_create_user call whose INSERT meets the row a concurrent call
\* created first does not fail: it returns the id of that row.
C17_ConflictRetried ==
    \A c \in UserCalls :
        (gocCall[c].pc = "done" /\ gocCall[c].conflict)
        => /\ gocCall[c].raised = "none"
           /\ \E r \in RowsOf(userTable, gocCall[c].clerk_user_id) :
                  gocCall[c].ret = r.id

\* C18: no failure is reported as an ordinary return value: check_rate_limit
\* called for a user id without a row does not return (False, 0), the value it
\* returns for an exhausted quota.
C18_MissingUserClassified ==
    (lastCall.called /\ ~lastCall.found) => lastCall.ret # Result(FALSE, 0)

\* C19: check_rate_limit changes last_prompt_reset only when it was unset (set
\* to now, counter kept) or more than one hour old (set to now, counter
\* zeroed); the row stored when the quota is evaluated already carries the
\* change, and the quota step leaves last_prompt_reset as it is.
C19_AnchorChangesOnlyOnReset ==
    SeqCall =>
        /\ (lastCall.before.last_prompt_reset = None
            => lastCall.persisted =
                   Row(lastCall.before.hourly_prompt_count, lastCall.now))
        /\ (/\ lastCall.before.last_prompt_reset # None
            /\ lastCall.now - lastCall.before.last_prompt_reset > Hour
            => lastCall.persisted = Row(0, lastCall.now))
        /\ (/\ lastCall.before.last_prompt_reset # None
            /\ lastCall.now - lastCall.before.last_prompt_reset <= Hour
            => lastCall.persisted = lastCall.before)
        /\ lastCall.persisted = lastCall.mid
        /\ lastCall.after.last_prompt_reset = lastCall.persisted.last_prompt_reset
        /\ lastCall.after = KnownRow

\* first use: the anchor was unset, the call set it to its own time, after the
\* clock had moved, and granted the prompt
C19_Witness ==
    /\ SeqCall
    /\ lastCall.before = Row(0, None)
    /\ lastCall.now > 0
    /\ lastCall.persisted = Row(0, lastCall.now)
    /\ lastCall.after = Row(1, lastCall.now)
    /\ lastCall.ret.allowed

\* C20: a stream_chat request answered 404 or 403 leaves the caller's
\* hourly_prompt_count and last_prompt_reset as they were (a caller without a
\* row gets the row with its defaults, no prompt counted), and a request
\* answered 404, 403 or 429 saves no chat message and starts no completion.
C20_QuotaAfterProjectCheck ==
    lastChat.called =>
        /\ (lastChat.status \in {404, 403}
            => /\ lastChat.after = IF lastChat.hadRow THEN lastChat.before
                                   ELSE Row(0, lastChat.now)
               /\ ~lastChat.saved /\ ~lastChat.streamed)
        /\ (lastChat.status = 429
            => /\ ~lastChat.saved /\ ~lastChat.streamed
               /\ lastChat.after.hourly_prompt_count >= MAX_PROMPTS_PER_HOUR)
        /\ lastChat.status \in {200, 404, 403, 429}

\* a caller with part of the quota used was answered 404 and keeps the row;
\* 403 and 429 have been answered before
C20_Witness ==
    /\ lastChat.called
    /\ lastChat.status = 404
    /\ lastChat.hadRow
    /\ lastChat.before.hourly_prompt_count = 1
    /\ lastChat.after = lastChat.before
    /\ {403, 429} \subseteq chatSeen
    /\ chatMessages[KnownProject] > 0

\* C21: for an existing user, get_rate_limit reports remaining_prompts = 0
\* exactly when a check_rate_limit call at the same time would deny.
C21_ViewAgreesWithLimiter ==
    (lastView.called /\ lastView.found)
    => ((lastView.remaining_prompts = 0) <=> ~lastView.wouldAllow)

\* C22: under every interleaving of concurrent create_project and
\* delete_project requests of one user, the user owns at most max_projects
\* projects, and a create_project that counted max_projects of them ends 400.
C22_AtMostMaxProjects ==
    /\ Cardinality(OwnedBy(projects, KnownUser)) <= max_projects
    /\ \A c \in ProjectCalls :
           (/\ projCall[c].op = "create_project"
            /\ projCall[c].pc = "done"
            /\ ~projCall[c].can_create)
           => projCall[c].status = 400

\* C23: a project or file request whose target belongs to another user than
\* the requester ends 403, changes no project, file or message, and returns
\* nothing of the target.
C23_NoForeignAccess ==
    (lastReq.called /\ lastReq.foreign)
    => (lastReq.status = 403 /\ ~lastReq.changed /\ ~lastReq.disclosed)

\* C24: with create_project, create_file, rename_file and delete_file handled
\* one at a time, no project has two files of one name; a create_file or a
\* rename_file whose name another file of the project has ends 400 and changes
\* nothing, and a rename_file to the file's own name ends 200.
C24_UniqueFileNames ==
    /\ \A f, g \in files :
           (f.project_id = g.project_id /\ f.name = g.name) => f.id = g.id
    /\ (/\ lastReq.called
        /\ lastReq.op \in {"create_file", "rename_file"}
        /\ lastReq.taken)
       => (lastReq.status = 400 /\ ~lastReq.changed)
    /\ (/\ lastReq.called
        /\ lastReq.op = "rename_file"
        /\ lastReq.sameName)
       => lastReq.status = 200

\* a rename to a name another file of the project has was refused, in a store
\* of two projects
C24_Witness ==
    /\ lastReq.called
    /\ lastReq.op = "rename_file"
    /\ lastReq.taken
    /\ lastReq.status = 400
    /\ Cardinality(DOMAIN projects) > 1
    /\ ~lastReq.sameName

====
